---- MODULE Spec2Model ----
(***************************************************************************)
(* London Output Area surface analysis (web_app_deploy.py).                *)
(*                                                                         *)
(* One run of the Streamlit script: postcode -> output area -> clip the    *)
(* building, car park and greenspace layers to the output area -> apply    *)
(* the priority rules -> areas and percentages -> table and map.           *)
(*                                                                         *)
(* Geometry is modelled on a grid: a geometry is the set of unit cells it  *)
(* covers, unary_union is set union, difference is set difference, the     *)
(* intersection of an overlay is set intersection, is_empty is "= {}" and  *)
(* area is the number of cells.  The cells are in the metric CRS of lines  *)
(* 116-119, where every geometric operation of the script takes place.     *)
(* A GeoDataFrame is the sequence of its rows.  Python variables that are  *)
(* not assigned yet hold Unset.                                            *)
(***************************************************************************)
EXTENDS Integers, Sequences, FiniteSets

\* The number of cells of the plane (each of area 1).
NCells == 2

Cells == 1..NCells

\* Largest number of features (boundary rows of the looked-up output area
\* plus building, car park and greenspace polygons) in the loaded data.
MaxFeatures == 4

VARIABLES
    text_input,        \* what the user typed into st.text_input
    postcode_input,    \* the normalized postcode (lines 43-44)
    postcode_lookup,   \* the postcode table, pcds normalized
    oa_layer,          \* the output-area boundary layer
    buildings_layer, carpark_layer, greenspace_layer,   \* the raw layers
    match,             \* rows of postcode_lookup for the postcode
    oa_code,
    oa_boundary,       \* rows of oa_layer for oa_code
    buildings, carpark, greenspace,         \* the clipped layers
    building_union, carpark_union, greenspace_union, opportunity_geom,
    total_area,
    area,              \* class -> reported area
    pct,               \* class -> reported percentage
    display_geoms,     \* class -> building_display, carpark_display, ...
    layers,            \* the pydeck layers of the map
    display,           \* what the page shows, in order
    pc                 \* the position of the script

vars == <<text_input, postcode_input, postcode_lookup, oa_layer,
          buildings_layer, carpark_layer, greenspace_layer, match, oa_code,
          oa_boundary, buildings, carpark, greenspace, building_union,
          carpark_union, greenspace_union, opportunity_geom, total_area,
          area, pct, display_geoms, layers, display, pc>>

Unset == "unset"

Classes == {"Buildings", "Car Park", "Greenspace", "Opportunity"}

----------------------------------------------------------------------------
(* Strings are sequences of characters.                                    *)

\* str.upper on one character
UpperChar(c) == CASE c = "n" -> "N"
                  [] c = "e" -> "E"
                  [] c = "w" -> "W"
                  [] OTHER -> c

\* str.upper
Upper(s) == [i \in DOMAIN s |-> UpperChar(s[i])]

RECURSIVE LStrip(_)
LStrip(s) == IF s # <<>> /\ Head(s) = " " THEN LStrip(Tail(s)) ELSE s

RECURSIVE RStrip(_)
RStrip(s) == IF s # <<>> /\ s[Len(s)] = " "
             THEN RStrip(SubSeq(s, 1, Len(s) - 1)) ELSE s

\* str.strip
Strip(s) == RStrip(LStrip(s))

NotSpace(c) == c # " "

\* str.replace(" ", "")
RemoveSpaces(s) == SelectSeq(s, NotSpace)

\* .upper().strip() and then .replace(" ", ""), as lines 43-44 and 62-63
NormalizePostcode(s) == RemoveSpaces(Strip(Upper(s)))

----------------------------------------------------------------------------
(* The data.                                                               *)

\* What the user may type: nothing, a postcode of the table written in
\* lower case with spaces, one whose output area has no boundary, and one
\* that is not in the table.
TextInputs == { <<>>,
                <<" ", "n", " ", "1">>,
                <<"e", "2">>,
                <<"w", "3">> }

\* london_postcode_to_oa21_2025.csv as it is on disk
PostcodeCsv == << [pcds |-> <<"N", "1">>,      oa21 |-> "E00000001"],
                  [pcds |-> <<"e", "2", " ">>, oa21 |-> "E00000002"],
                  [pcds |-> <<"n", " ", "1">>, oa21 |-> "E00000003"] >>

\* a polygon of a candidate layer
Polygons == (SUBSET Cells) \ {{}}

\* the geometry of a boundary row; {} is a degenerate row of area 0
BoundaryGeometries == SUBSET Cells

SeqsUpTo(S, n) == UNION {[1..k -> S] : k \in 0..n}

\* The boundary layer: a row of another output area, then the rows of
\* E00000001.  E00000002 has no row.
OaLayerOf(geoms) ==
    << [OA21CD |-> "E00000003", geometry |-> Cells] >> \o
    [i \in DOMAIN geoms |-> [OA21CD |-> "E00000001", geometry |-> geoms[i]]]

----------------------------------------------------------------------------
(* The geometry kernel and the data frames.                                *)

\* shapely.geometry.GeometryCollection()
GeometryCollection == {}

\* shapely.ops.unary_union over a sequence of geometries
unary_union(geoms) == UNION {geoms[i] : i \in DOMAIN geoms}

\* GeoSeries.difference(other), row by row
difference(geoms, other) == [i \in DOMAIN geoms |-> geoms[i] \ other]

is_empty(geom) == geom = {}

\* geometry.area
Area(geom) == Cardinality(geom)

\* DataFrame.empty
empty(df) == Len(df) = 0

NonEmptyGeometry(geom) == ~is_empty(geom)

\* gpd.overlay(df1, df2, how="intersection"): one row for every pair of a
\* row of df1 and a row of df2 whose geometries intersect
overlay(df1, df2) ==
    LET n == Len(df2)
        pairs == [k \in 1..(Len(df1) * n) |->
                    df1[((k - 1) \div n) + 1] \cap df2[((k - 1) % n) + 1].geometry]
    IN  SelectSeq(pairs, NonEmptyGeometry)

\* the rows of the postcode table with this postcode (line 97)
PcdsIs(row) == row.pcds = postcode_input

\* the rows of the boundary layer with this code (line 109)
Oa21cdIs(row) == row.OA21CD = oa_code

\* x / total_area * 100, total_area a numpy float: a zero denominator gives
\* nan or inf with a warning, not an exception
Percentage(x, total) ==
    IF total = 0
    THEN (IF x = 0 THEN [kind |-> "nan"] ELSE [kind |-> "inf"])
    ELSE [kind |-> "finite", num |-> x * 100, den |-> total]

\* class_union.area if not class_union.is_empty else 0
AreaOrZero(geom) == IF ~is_empty(geom) THEN Area(geom) ELSE 0

None == [none |-> TRUE]

\* to_wgs84 without the test for an empty geometry
to_wgs84_always(geom) == [wgs84 |-> geom]

\* to_wgs84: None for an empty geometry, the reprojected geometry otherwise
to_wgs84(geom) == IF is_empty(geom) THEN None ELSE [wgs84 |-> geom]

\* the truth value of a display geometry (None is false, a geometry is
\* true when it is not empty)
Truthy(d) == IF d = None THEN FALSE ELSE ~is_empty(d.wgs84)

----------------------------------------------------------------------------

Init ==
    /\ text_input \in TextInputs
    /\ postcode_input = NormalizePostcode(text_input)
    /\ postcode_lookup = Unset
    /\ oa_layer = Unset
    /\ buildings_layer = Unset
    /\ carpark_layer = Unset
    /\ greenspace_layer = Unset
    /\ match = Unset
    /\ oa_code = Unset
    /\ oa_boundary = Unset
    /\ buildings = Unset
    /\ carpark = Unset
    /\ greenspace = Unset
    /\ building_union = Unset
    /\ carpark_union = Unset
    /\ greenspace_union = Unset
    /\ opportunity_geom = Unset
    /\ total_area = Unset
    /\ area = Unset
    /\ pct = Unset
    /\ display_geoms = Unset
    /\ layers = Unset
    /\ display = <<>>
    /\ pc = "main"

\* line 51: nothing is typed, the script ends
NoInput ==
    /\ pc = "main"
    /\ postcode_input = <<>>
    /\ pc' = "noinput"
    /\ UNCHANGED <<text_input, postcode_input, postcode_lookup, oa_layer,
                   buildings_layer, carpark_layer, greenspace_layer, match,
                   oa_code, oa_boundary, buildings, carpark, greenspace,
                   building_union, carpark_union, greenspace_union,
                   opportunity_geom, total_area, area, pct, display_geoms, layers, display>>

\* lines 51-92: load the postcode table and the four spatial layers
LoadData ==
    /\ pc = "main"
    /\ postcode_input # <<>>
    /\ postcode_lookup' = [i \in DOMAIN PostcodeCsv |->
            [pcds |-> NormalizePostcode(PostcodeCsv[i].pcds),
             oa21 |-> PostcodeCsv[i].oa21]]
    /\ \E rows \in SeqsUpTo(BoundaryGeometries, MaxFeatures) :
       \E b \in SeqsUpTo(Polygons, MaxFeatures - Len(rows)) :
       \E c \in SeqsUpTo(Polygons, MaxFeatures - Len(rows) - Len(b)) :
       \E g \in SeqsUpTo(Polygons, MaxFeatures - Len(rows) - Len(b) - Len(c)) :
          /\ oa_layer' = OaLayerOf(rows)
          /\ buildings_layer' = b
          /\ carpark_layer' = c
          /\ greenspace_layer' = g
    /\ pc' = "step1"
    /\ UNCHANGED <<text_input, postcode_input, match, oa_code, oa_boundary,
                   buildings, carpark, greenspace, building_union,
                   carpark_union, greenspace_union, opportunity_geom,
                   total_area, area, pct, display_geoms, layers, display>>

\* lines 97-104: postcode -> output area
Step1 ==
    /\ pc = "step1"
    /\ match' = SelectSeq(postcode_lookup, PcdsIs)
    /\ IF empty(match')
       THEN /\ display' = Append(display, "error: Postcode not found.")
            /\ pc' = "stopped"
            /\ UNCHANGED oa_code
       ELSE /\ oa_code' = match'[1].oa21
            /\ display' = Append(display, "success: Matched Output Area")
            /\ pc' = "step2"
    /\ UNCHANGED <<text_input, postcode_input, postcode_lookup, oa_layer,
                   buildings_layer, carpark_layer, greenspace_layer,
                   oa_boundary, buildings, carpark, greenspace,
                   building_union, carpark_union, greenspace_union,
                   opportunity_geom, total_area, area, pct, display_geoms, layers>>

\* the boundary lookup reporting a miss and going on
Step2NoStop ==
    /\ pc = "step2"
    /\ oa_boundary' = SelectSeq(oa_layer, Oa21cdIs)
    /\ IF empty(oa_boundary')
       THEN display' = Append(display, "error: Output Area geometry not found.")
       ELSE UNCHANGED display
    /\ pc' = "step3"
    /\ UNCHANGED <<text_input, postcode_input, postcode_lookup, oa_layer,
                   buildings_layer, carpark_layer, greenspace_layer, match,
                   oa_code, buildings, carpark, greenspace, building_union,
                   carpark_union, greenspace_union, opportunity_geom,
                   total_area, area, pct, display_geoms, layers>>

\* lines 109-119: the boundary of the output area
Step2 ==
    /\ pc = "step2"
    /\ oa_boundary' = SelectSeq(oa_layer, Oa21cdIs)
    /\ IF empty(oa_boundary')
       THEN /\ display' = Append(display, "error: Output Area geometry not found.")
            /\ pc' = "stopped"
       ELSE /\ pc' = "step3"
            /\ UNCHANGED display
    /\ UNCHANGED <<text_input, postcode_input, postcode_lookup, oa_layer,
                   buildings_layer, carpark_layer, greenspace_layer, match,
                   oa_code, buildings, carpark, greenspace, building_union,
                   carpark_union, greenspace_union, opportunity_geom,
                   total_area, area, pct, display_geoms, layers>>

\* lines 124-126: clip the layers to the output area
Step3 ==
    /\ pc = "step3"
    /\ buildings' = overlay(buildings_layer, oa_boundary)
    /\ carpark' = overlay(carpark_layer, oa_boundary)
    /\ greenspace' = overlay(greenspace_layer, oa_boundary)
    /\ pc' = "step4"
    /\ UNCHANGED <<text_input, postcode_input, postcode_lookup, oa_layer,
                   buildings_layer, carpark_layer, greenspace_layer, match,
                   oa_code, oa_boundary, building_union, carpark_union,
                   greenspace_union, opportunity_geom, total_area, area, pct,
                   display_geoms, layers, display>>

\* lines 132, 136, 141: the union of the rows, or an empty collection
UnionOf(df) ==
    IF ~empty(df) THEN unary_union(df) ELSE GeometryCollection

\* the car park rows with the buildings left in
CarparkKeepsBuildings(c, bu) == c

\* line 135: the car park rows less the buildings
CarparkLessBuildings(c, bu) == difference(c, bu)

\* the greenspace rows less the buildings only
GreenspaceLessBuildingsOnly(g, bu, cu) == difference(g, bu)

\* lines 139-140: the greenspace rows less buildings and car park
GreenspaceLessOccupied(g, bu, cu) ==
    LET combined_union == unary_union(<<bu, cu>>)
    IN  difference(g, combined_union)

\* lines 132-141: the priority rules
Step4 ==
    /\ pc = "step4"
    /\ building_union' = UnionOf(buildings)
    /\ carpark' = CarparkLessBuildings(carpark, building_union')
    /\ carpark_union' = UnionOf(carpark')
    /\ greenspace' = GreenspaceLessOccupied(greenspace, building_union',
                                            carpark_union')
    /\ greenspace_union' = UnionOf(greenspace')
    /\ pc' = "step5"
    /\ UNCHANGED <<text_input, postcode_input, postcode_lookup, oa_layer,
                   buildings_layer, carpark_layer, greenspace_layer, match,
                   oa_code, oa_boundary, buildings, opportunity_geom,
                   total_area, area, pct, display_geoms, layers, display>>

\* the first boundary geometry less the buildings only
OpportunityLessBuildingsOnly(boundary, bu, cu, gu) ==
    boundary[1].geometry \ bu

\* lines 147-153: the first boundary geometry less everything classified
OpportunityGeom(boundary, bu, cu, gu) ==
    LET classified_union == unary_union(<<bu, cu, gu>>)
    IN  boundary[1].geometry \ classified_union

Step5 ==
    /\ pc = "step5"
    /\ opportunity_geom' = OpportunityGeom(oa_boundary, building_union,
                                           carpark_union, greenspace_union)
    /\ pc' = "step6"
    /\ UNCHANGED <<text_input, postcode_input, postcode_lookup, oa_layer,
                   buildings_layer, carpark_layer, greenspace_layer, match,
                   oa_code, oa_boundary, buildings, carpark, greenspace,
                   building_union, carpark_union, greenspace_union,
                   total_area, area, pct, display_geoms, layers, display>>

\* line 159: the area of the first boundary geometry
TotalArea(boundary) == Area(boundary[1].geometry)

\* lines 159-169: areas and percentages
Step6 ==
    /\ pc = "step6"
    /\ total_area' = TotalArea(oa_boundary)
    /\ area' = [c \in Classes |->
                  CASE c = "Buildings"   -> AreaOrZero(building_union)
                    [] c = "Car Park"    -> AreaOrZero(carpark_union)
                    [] c = "Greenspace"  -> AreaOrZero(greenspace_union)
                    [] c = "Opportunity" -> AreaOrZero(opportunity_geom)]
    /\ pct' = [c \in Classes |-> Percentage(area'[c], total_area')]
    /\ pc' = "step7"
    /\ UNCHANGED <<text_input, postcode_input, postcode_lookup, oa_layer,
                   buildings_layer, carpark_layer, greenspace_layer, match,
                   oa_code, oa_boundary, buildings, carpark, greenspace,
                   building_union, carpark_union, greenspace_union,
                   opportunity_geom, display_geoms, layers, display>>

\* lines 175-202: the results table
Step7 ==
    /\ pc = "step7"
    /\ display' = display \o <<"subheader: Surface Breakdown", "dataframe">>
    /\ pc' = "step8"
    /\ UNCHANGED <<text_input, postcode_input, postcode_lookup, oa_layer,
                   buildings_layer, carpark_layer, greenspace_layer, match,
                   oa_code, oa_boundary, buildings, carpark, greenspace,
                   building_union, carpark_union, greenspace_union,
                   opportunity_geom, total_area, area, pct, display_geoms, layers>>

\* lines 213-216: the four display geometries
DisplayGeoms(bu, cu, gu, og) ==
    [c \in Classes |->
        CASE c = "Buildings"   -> to_wgs84(bu)
          [] c = "Car Park"    -> to_wgs84(cu)
          [] c = "Greenspace"  -> to_wgs84(gu)
          [] c = "Opportunity" -> to_wgs84(og)]

\* lines 222-231, 234-243, 246-255, 258-267: a layer when the display
\* geometry is true
ClassLayer(name, d) ==
    IF Truthy(d) THEN << [name |-> name, data |-> d.wgs84] >> ELSE <<>>

\* lines 219-279: the layers of the map, the boundary outline last
MapLayers(dg, boundary) ==
    ClassLayer("Buildings", dg["Buildings"]) \o
    ClassLayer("Car Park", dg["Car Park"]) \o
    ClassLayer("Greenspace", dg["Greenspace"]) \o
    ClassLayer("Opportunity", dg["Opportunity"]) \o
    << [name |-> "OA Boundary",
        data |-> [i \in DOMAIN boundary |-> boundary[i].geometry]] >>

\* lines 208-337: the map, the legend, and the layers are released
Step8 ==
    /\ pc = "step8"
    /\ display_geoms' = DisplayGeoms(building_union, carpark_union,
                                     greenspace_union, opportunity_geom)
    /\ layers' = MapLayers(display_geoms', oa_boundary)
    /\ display' = display \o <<"subheader: Surface Classification Map",
                               "pydeck_chart", "subheader: Legend",
                               "markdown: legend">>
    /\ oa_layer' = Unset
    /\ buildings_layer' = Unset
    /\ greenspace_layer' = Unset
    /\ carpark_layer' = Unset
    /\ pc' = "done"
    /\ UNCHANGED <<text_input, postcode_input, postcode_lookup, match,
                   oa_code, oa_boundary, buildings, carpark, greenspace,
                   building_union, carpark_union, greenspace_union,
                   opportunity_geom, total_area, area, pct>>

Next ==
    \/ NoInput
    \/ LoadData
    \/ Step1
    \/ Step2
    \/ Step3
    \/ Step4
    \/ Step5
    \/ Step6
    \/ Step7
    \/ Step8

Spec == Init /\ [][Next]_vars

----------------------------------------------------------------------------
(* Properties.                                                             *)

Range(s) == {s[i] : i \in DOMAIN s}

\* the boundary rows are found
BoundaryFound == pc \in {"step3", "step4", "step5", "step6", "step7",
                         "step8", "done"}

\* the four class geometries are computed
Classified == pc \in {"step6", "step7", "step8", "done"}

\* the four class geometries are computed and the raw layers still loaded
ClassifiedLoaded == pc \in {"step6", "step7", "step8"}

\* areas and percentages are computed
Reported == pc \in {"step7", "step8", "done"}

ClassGeom(c) == CASE c = "Buildings"   -> building_union
                  [] c = "Car Park"    -> carpark_union
                  [] c = "Greenspace"  -> greenspace_union
                  [] c = "Opportunity" -> opportunity_geom

\* the geometry whose area is total_area
FirstBoundary == oa_boundary[1].geometry

\* every boundary row of the output area taken together
AllBoundary == UNION {oa_boundary[i].geometry : i \in DOMAIN oa_boundary}

\* some polygon of the layer covers the cell
Covers(layer, p) == \E i \in DOMAIN layer : p \in layer[i]

\* the part of a raw layer inside the boundary rows
Inside(layer) == {p \in AllBoundary : Covers(layer, p)}

SumOfAreas == area["Buildings"] + area["Car Park"] + area["Greenspace"]
              + area["Opportunity"]

\* C1: for a boundary of positive area, the four reported areas sum to the
\* boundary's total area.
AreaConservation ==
    (Reported /\ total_area > 0) => SumOfAreas = total_area

\* C1 where the output area has one boundary row only: the areas sum to
\* the total area.
AreaConservationOneRow ==
    (Reported /\ total_area > 0 /\ Len(oa_boundary) = 1)
        => SumOfAreas = total_area

\* C2: any two of the four class geometries have an empty intersection.
PairwiseDisjoint ==
    Classified =>
        \A c1 \in Classes : \A c2 \in Classes \ {c1} :
            ClassGeom(c1) \cap ClassGeom(c2) = {}

\* a cell of the boundary covered by a building, a car park and a
\* greenspace at once has been classified
OverlapClassified ==
    /\ ClassifiedLoaded
    /\ \E p \in FirstBoundary :
          /\ Covers(buildings_layer, p)
          /\ Covers(carpark_layer, p)
          /\ Covers(greenspace_layer, p)

\* the class of a cell of the boundary by the priority order
ClassOf(p) ==
    IF Covers(buildings_layer, p) THEN "Buildings"
    ELSE IF Covers(carpark_layer, p) THEN "Car Park"
    ELSE IF Covers(greenspace_layer, p) THEN "Greenspace"
    ELSE "Opportunity"

\* C3: every cell of the boundary is in the geometry of the highest-priority
\* class that covers it and in no other, and a car park polygon inside a
\* building polygon gives nothing to carpark_union.
StrictPriority ==
    ClassifiedLoaded =>
        /\ \A p \in FirstBoundary : \A c \in Classes :
              (p \in ClassGeom(c)) <=> (c = ClassOf(p))
        /\ \A i \in DOMAIN carpark_layer :
              (\E j \in DOMAIN buildings_layer :
                    carpark_layer[i] \subseteq buildings_layer[j])
                 => carpark_layer[i] \cap carpark_union = {}

\* a car park polygon of the boundary lies inside a building while another
\* car park area is left to carpark_union
ContainedCarparkClassified ==
    /\ ClassifiedLoaded
    /\ \E i \in DOMAIN carpark_layer : \E j \in DOMAIN buildings_layer :
          /\ carpark_layer[i] \subseteq buildings_layer[j]
          /\ carpark_layer[i] \cap FirstBoundary # {}
    /\ carpark_union # {}

\* an empty clipped layer gives an empty union, area 0 and percentage 0
EmptyClass(c) ==
    /\ ClassGeom(c) = {}
    /\ area[c] = 0
    /\ pct[c].kind = "finite" /\ pct[c].num = 0

\* what an empty clipped layer gives: its class is empty, and the other
\* classes are what they are without the layer
EmptyLayerOutcome ==
    /\ empty(buildings) =>
          /\ EmptyClass("Buildings")
          /\ carpark_union = Inside(carpark_layer)
          /\ greenspace_union = Inside(greenspace_layer) \ carpark_union
    /\ empty(carpark) =>
          /\ EmptyClass("Car Park")
          /\ greenspace_union = Inside(greenspace_layer) \ building_union
          /\ opportunity_geom =
                FirstBoundary \ (building_union \cup greenspace_union)
    /\ empty(greenspace) =>
          /\ EmptyClass("Greenspace")
          /\ opportunity_geom =
                FirstBoundary \ (building_union \cup carpark_union)

\* C4: when a clipped layer is empty its class is empty with area 0 and
\* percentage 0, and the other classes are what they are without the layer.
EmptyInputSafety ==
    (Reported /\ pc # "done") => EmptyLayerOutcome

\* C4 for a boundary of positive area only.
EmptyInputSafetyPositiveArea ==
    (Reported /\ pc # "done" /\ total_area > 0) => EmptyLayerOutcome

\* C5: with a boundary of area 0 no percentage is computed and no table is
\* displayed.
DegenerateBoundaryFatal ==
    (BoundaryFound /\ Area(FirstBoundary) = 0) =>
        /\ ~Reported
        /\ "dataframe" \notin Range(display)

\* C6: after a lookup miss the run shows an error and stops with nothing
\* clipped, classified or measured, and the table and the map are shown
\* only after both lookups have found a row.
FailFast ==
    /\ pc \in {"step2", "step3", "step4", "step5", "step6", "step7",
             "step8", "done"} => ~empty(match)
    /\ BoundaryFound => ~empty(oa_boundary)
    /\ pc = "stopped" =>
          /\ display[Len(display)] \in
                {"error: Postcode not found.",
                 "error: Output Area geometry not found."}
          /\ buildings = Unset /\ carpark = Unset /\ greenspace = Unset
          /\ building_union = Unset /\ opportunity_geom = Unset
          /\ area = Unset /\ pct = Unset
    /\ ("dataframe" \in Range(display) \/ "pydeck_chart" \in Range(display))
          => pc \in {"step8", "done"}

\* the postcode is found, its output area has no boundary row, and the run
\* has stopped
StoppedAtBoundaryMiss ==
    /\ pc = "stopped"
    /\ display[Len(display)] = "error: Output Area geometry not found."

\* the classes that have a layer on the map
LayerNames == {layers[i].name : i \in DOMAIN layers}

\* C7: a display geometry is None exactly when the class geometry is empty,
\* a class has a map layer exactly when its geometry is not empty, and the
\* boundary outline is the last layer, whatever classes are empty.
ResultProjection ==
    pc = "done" =>
        /\ \A c \in Classes :
              /\ (display_geoms[c] = None) <=> (ClassGeom(c) = {})
              /\ (c \in LayerNames) <=> (ClassGeom(c) # {})
        /\ layers[Len(layers)].name = "OA Boundary"
        /\ \A i \in 1..(Len(layers) - 1) : layers[i].name \in Classes

\* a map with an empty class and a class that is not empty
MapWithEmptyClass ==
    /\ pc = "done"
    /\ \E c \in Classes : ClassGeom(c) = {}
    /\ \E c \in Classes : ClassGeom(c) # {}

\* C8: for a boundary of positive area the four percentages sum to 100 and
\* each is between 0 and 100.
PercentageNormalization ==
    (Reported /\ total_area > 0) =>
        /\ \A c \in Classes :
              /\ pct[c].kind = "finite"
              /\ 0 <= pct[c].num
              /\ pct[c].num <= 100 * pct[c].den
        /\ pct["Buildings"].num + pct["Car Park"].num
              + pct["Greenspace"].num + pct["Opportunity"].num
              = 100 * total_area

\* C8 where the output area has one boundary row only.
PercentageNormalizationOneRow ==
    (Reported /\ total_area > 0 /\ Len(oa_boundary) = 1) =>
        /\ \A c \in Classes :
              /\ pct[c].kind = "finite"
              /\ 0 <= pct[c].num
              /\ pct[c].num <= 100 * pct[c].den
        /\ pct["Buildings"].num + pct["Car Park"].num
              + pct["Greenspace"].num + pct["Opportunity"].num
              = 100 * total_area

\* C9: with several boundary rows the layers are clipped to the first row,
\* so every class geometry lies in the geometry whose area is total_area.
FirstMatchOnly ==
    Classified =>
        /\ \A i \in DOMAIN buildings : buildings[i] \subseteq FirstBoundary
        /\ \A c \in Classes : ClassGeom(c) \subseteq FirstBoundary

\* C10: the class geometries are those of the specified algorithm (union
\* each clipped layer, then one difference against the higher classes), and
\* building_union is the plain union of the clipped buildings.
SameAsUnionFirst ==
    ClassifiedLoaded =>
        LET carpark_raw == unary_union(overlay(carpark_layer, oa_boundary))
            greenspace_raw == unary_union(overlay(greenspace_layer, oa_boundary))
            spec_building == unary_union(buildings)
            spec_carpark == carpark_raw \ spec_building
            occupied == spec_building \cup spec_carpark
            spec_greenspace == greenspace_raw \ occupied
            classified == spec_building \cup spec_carpark \cup spec_greenspace
        IN  /\ building_union = spec_building
            /\ building_union = Inside(buildings_layer)
            /\ carpark_union = spec_carpark
            /\ greenspace_union = spec_greenspace
            /\ opportunity_geom = FirstBoundary \ classified

\* two greenspace polygons, one partly under a car park or a building, are
\* classified and some greenspace is left
TwoGreenspacesClassified ==
    /\ ClassifiedLoaded
    /\ Len(greenspace) >= 2
    /\ \E i \in DOMAIN greenspace_layer :
          /\ greenspace_layer[i] \cap (building_union \cup carpark_union) # {}
          /\ greenspace_layer[i] \cap greenspace_union # {}

====
